---- MODULE Spec2Model ----
(***************************************************************************)
(* State-machine model of pbotest.cpp: SDL2 + OpenGL colour-wave           *)
(* background with a bouncing quad whose texture is streamed from RAM      *)
(* through two pixel buffer objects.                                       *)
(*                                                                         *)
(* The GL server is modelled by what the program asks of it: which buffer  *)
(* objects and textures exist, which image each texture last received, and *)
(* a log of the map/memcpy and glTexSubImage2D calls that were issued.     *)
(***************************************************************************)
EXTENDS Integers, Sequences, FiniteSets, TLC

(***************************************************************************)
(* Bounds of the model                                                     *)
(***************************************************************************)
\* the loop is followed up to this frame counter value
MaxFrame == 710
\* files tex0.png .. tex<MaxFileIdx>.png may exist, the others never do; the
\* files that exist in one run all decode to the same dimensions
MaxFileIdx == 2

(***************************************************************************)
(* Program constants                                                       *)
(***************************************************************************)
NumCandidates == 10          \* for (int i = 0; i < 10; ++i)
texW == 2048
texH == 2048
texChannels == 4
numPBOS == 2
WarmUp == 100                \* frame >= 100
Dwell == 200                 \* (frame - 100) / 200
\* size_t currentIdx = SIZE_MAX.  The value itself (2^64 - 1) is never used in
\* arithmetic; it is only compared with image indices (< 10), so the model
\* keeps the largest integer TLC represents.
SIZE_MAX == 2147483647

texDataSize == texW * texH * texChannels

START_W == 1920
START_H == 1080
\* float velX = 250.0f, velY = 190.0f: pixels per second
velX0 == 250
velY0 == 190
\* float alwaysDT = 0.01666f, in units of 10^-5 s
alwaysDT == 1666
\* Positions are floats in the program.  The model keeps them as integers in
\* units of 10^-5 pixel, in which a step vel * dt is the integer vel * alwaysDT
\* and every bound the program compares a position with (0, dw - quadW) is
\* exact.  float rounding is monotone and these bounds are representable, so
\* the comparisons of lines 279-282 come out the same on the rounded values.
PxScale == 100000
quadW == (START_W * PxScale) \div 4          \* START_W * 0.25f
quadH == (START_H * PxScale) \div 4          \* START_H * 0.25f

(***************************************************************************)
(* Environment: the files on disk and what the decoder makes of them       *)
(***************************************************************************)
\* an absent or undecodable file: stbi_load returns NULL
NoFile == [w |-> 0, h |-> 0]
\* decoded dimensions a file may have: smaller than, equal to, larger than
\* the 2048 x 2048 texture
Dims == { [w |-> 2, h |-> 2], [w |-> 2048, h |-> 2048], [w |-> 4096, h |-> 2048] }

\* stbi_load(path, &w, &h, &ch, 4): NULL when the file is absent or does not
\* decode, else w*h*4 bytes
stbi_load(fs, i) == fs[i]

\* std::vector<unsigned char>(data, data + w*h*4)
RgbaSize(img) == img.w * img.h * 4

NoImage == -1
NoTexture == 0

VARIABLES
    pc,               \* position of main()
    exitStatus,       \* process exit status, -1 while running
    files,            \* environment: tex<i>.png -> NoFile or its dimensions
    havePBO,          \* init_sdl's detection result (printed, line 113)
    images,           \* std::vector<ImageRAM>, elements [w, h, src]
    loadI,            \* loop variable i of load_images_to_ram
    pbos,             \* GLuint pbos[numPBOS]; <<>> before glGenBuffers
    pboIndex,
    texIDs,           \* GLuint texIDs[2]; <<>> before glGenTextures
    texImage,         \* GL: texture name -> image index it last received
    currentIdx,
    newIdx,           \* last value computed at line 231
    drawingTexture,
    uploadingTexture,
    frame,
    running,
    maps,             \* log of glMapBufferRange + memcpy calls (lines 254-259)
    copies,           \* log of glTexSubImage2D calls (lines 261-263), each
                      \* with the texture that was the display one then
    boundForDraw,     \* texture bound by the quad draw of this iteration
    oobRead,          \* the program has read outside an object it owns
    timeTicks,        \* float time, as the number of steps 0.016667f added
    clearCount,       \* glClear calls issued so far
    swapCount,        \* SDL_GL_SwapWindow calls issued so far
    sizes,            \* environment: drawable sizes the window may report
    dw, dh,           \* int dw, dh of the current iteration, in pixels
    posX, posY,       \* quad position, in units of 10^-5 pixel
    velX, velY,       \* quad velocity, in pixels per second
    clamped           \* which of the tests of lines 279-282 fired in the
                      \* last physics update

vars == << pc, exitStatus, files, havePBO, images, loadI, pbos,
           pboIndex, texIDs, texImage, currentIdx, newIdx, drawingTexture,
           uploadingTexture, frame, running, maps, copies, boundForDraw, oobRead,
           timeTicks, clearCount, swapCount, sizes, dw, dh,
           posX, posY, velX, velY, clamped >>

frameVars == << timeTicks, clearCount, swapCount >>
sizeVars == << sizes, dw, dh >>
physVars == << posX, posY, velX, velY, clamped >>

NoClamp == [left |-> FALSE, right |-> FALSE, top |-> FALSE, bottom |-> FALSE]

\* values of the variables main() has not yet initialised
NotYetRendering ==
    /\ timeTicks = 0 /\ clearCount = 0 /\ swapCount = 0
    /\ dw = 0 /\ dh = 0
    /\ posX = 0 /\ posY = 0 /\ velX = 0 /\ velY = 0
    /\ clamped = NoClamp

\* the window is a fullscreen-desktop one of the start size (lines 85-86)
FixedSize == { [w |-> START_W, h |-> START_H] }

nImages == Len(images)

(***************************************************************************)
(* Initial state: process start, before main() has run                     *)
(***************************************************************************)
Init ==
    /\ pc = "init_sdl"
    /\ exitStatus = -1
    /\ \E present \in SUBSET (0 .. MaxFileIdx), d \in Dims :
         files = [i \in 0 .. NumCandidates - 1 |->
                     IF i \in present THEN d ELSE NoFile]
    /\ havePBO = FALSE
    /\ images = << >>
    /\ loadI = 0
    /\ pbos = << >>
    /\ pboIndex = 0
    /\ texIDs = << >>
    /\ texImage = << >>
    /\ currentIdx = 0
    /\ newIdx = 0
    /\ drawingTexture = NoTexture
    /\ uploadingTexture = NoTexture
    /\ frame = 0
    /\ running = FALSE
    /\ maps = << >>
    /\ copies = << >>
    /\ boundForDraw = NoTexture
    /\ oobRead = FALSE
    /\ sizes = FixedSize
    /\ NotYetRendering

(***************************************************************************)
(* init_sdl (lines 80-118) as called from main (lines 143-144)             *)
(***************************************************************************)
\* the three places where init_sdl returns false
InitFailures == {"SDL_Init", "SDL_CreateWindow", "SDL_GL_CreateContext"}

\* what glGetString(GL_EXTENSIONS) returns: NULL (core profiles), a list
\* naming GL_ARB_pixel_buffer_object, or a list that does not name it
ExtStrings == {"null", "with_pbo", "without_pbo"}

\* lines 92-95; only evaluated for ext # "null" unless the version is 2.1
DetectPBO(version21, ext) == version21 \/ ext = "with_pbo"

\* the outcomes of lines 92-95: strstr(NULL, ...) is undefined, so the
\* process may die there or go on with either answer
DetectOutcomes(version21, ext) ==
    IF ~version21 /\ ext = "null"
    THEN {"crash", "true", "false"}
    ELSE {IF DetectPBO(version21, ext) THEN "true" ELSE "false"}

Crash ==
    /\ pc' = "crashed"
    /\ exitStatus' = 139

init_sdl ==
    /\ pc = "init_sdl"
    /\ \E fail \in InitFailures \cup {"none"}, version21 \in BOOLEAN,
          ext \in ExtStrings :
         IF fail # "none"
         THEN /\ pc' = "exited"
              /\ exitStatus' = 1                       \* EXIT_FAILURE
              /\ UNCHANGED havePBO
         ELSE \E o \in DetectOutcomes(version21, ext) :
                IF o = "crash"
                THEN Crash /\ UNCHANGED havePBO
                ELSE /\ havePBO' = (o = "true")
                     /\ pc' = "load"
                     /\ UNCHANGED exitStatus
    /\ UNCHANGED << files, images, loadI, pbos, pboIndex, texIDs, texImage,
                    currentIdx, newIdx, drawingTexture, uploadingTexture,
                    frame, running, maps, copies, boundForDraw, oobRead >>
    /\ UNCHANGED << frameVars, sizeVars, physVars >>

(***************************************************************************)
(* load_images_to_ram (lines 121-134), one loop iteration per step         *)
(***************************************************************************)
\* (variant: a decoded image is put in front of the ones loaded before)
PushDecoded_Front(imgs, data, i) ==
    IF data = NoFile
    THEN imgs
    ELSE << [w |-> data.w, h |-> data.h, src |-> i] >> \o imgs

\* lines 127-128: a failed decode is skipped, a decoded image is appended
PushDecoded(imgs, data, i) ==
    IF data = NoFile
    THEN imgs                                                    \* continue
    ELSE Append(imgs, [w |-> data.w, h |-> data.h, src |-> i])

load_images_to_ram ==
    /\ pc = "load"
    /\ IF loadI < NumCandidates
       THEN /\ images' = PushDecoded(images, stbi_load(files, loadI), loadI)
            /\ loadI' = loadI + 1
            /\ pc' = pc
       ELSE /\ pc' = "setup"                                         \* return imgs
            /\ UNCHANGED << images, loadI >>
    /\ UNCHANGED << exitStatus, files, havePBO, pbos, pboIndex, texIDs,
                    texImage, currentIdx, newIdx, drawingTexture,
                    uploadingTexture, frame, running, maps, copies,
                    boundForDraw, oobRead >>
    /\ UNCHANGED << frameVars, sizeVars, physVars >>

(***************************************************************************)
(* main, lines 146-189: GL objects and controller state                    *)
(***************************************************************************)
\* glGenBuffers(numPBOS, pbos) / glGenTextures(2, texIDs): fresh names 1, 2
GenNames(n) == [i \in 1 .. n |-> i]

main_setup ==
    /\ pc = "setup"
    /\ pbos' = GenNames(numPBOS)                       \* lines 158-165
    /\ pboIndex' = 0                                   \* line 166
    /\ texIDs' = GenNames(2)                           \* lines 169-170
    /\ texImage' = [t \in {1, 2} |-> NoImage]          \* line 175: no pixels
    /\ currentIdx' = SIZE_MAX                          \* line 182
    /\ pc' = "testcopy"
    /\ UNCHANGED << exitStatus, files, havePBO, images, loadI, newIdx,
                    drawingTexture, uploadingTexture, frame, running, maps,
                    copies, boundForDraw, oobRead >>
    /\ posX' = ((START_W * PxScale - quadW) \div 2)    \* line 186
    /\ posY' = ((START_H * PxScale - quadH) \div 2)    \* line 187
    /\ velX' = velX0                                   \* line 188
    /\ velY' = velY0                                   \* line 189
    /\ UNCHANGED << clamped, frameVars, sizeVars >>

(***************************************************************************)
(* main, lines 192-205: test buffer sized from images[0], loop variables   *)
(***************************************************************************)
\* images[0] on an empty vector reads an element that does not exist
TestCopyReadsOutside(imgs) == Len(imgs) = 0

\* the outcomes of lines 192-195: with no element 0 the read is undefined,
\* the process may die there or go on with a meaningless size
TestCopyOutcomes(imgs) ==
    IF TestCopyReadsOutside(imgs) THEN {"crash", "go_on"} ELSE {"go_on"}

main_testMemoryCopy ==
    /\ pc = "testcopy"
    /\ oobRead' = (oobRead \/ TestCopyReadsOutside(images))
    /\ \E o \in TestCopyOutcomes(images) :
         IF o = "crash"
         THEN /\ Crash
              /\ UNCHANGED << drawingTexture, uploadingTexture, frame, running >>
         ELSE /\ drawingTexture' = texIDs[1]            \* line 199: texIDs[0]
              /\ uploadingTexture' = texIDs[2]          \* line 200: texIDs[1]
              /\ frame' = 0                             \* line 202
              /\ running' = TRUE                        \* line 203
              /\ pc' = "poll"
              /\ UNCHANGED exitStatus
    /\ UNCHANGED << files, havePBO, images, loadI, pbos, pboIndex, texIDs,
                    texImage, currentIdx, newIdx, maps, copies, boundForDraw >>
    /\ timeTicks' = 0                                  \* line 204
    /\ UNCHANGED << clearCount, swapCount, sizeVars, physVars >>

(***************************************************************************)
(* The render loop, lines 206-303                                          *)
(***************************************************************************)
\* lines 207-210: SDL_QUIT or Escape clear the flag; the body still runs on
PollEvents ==
    /\ pc = "poll"
    /\ \E quit \in BOOLEAN : running' = (running /\ ~quit)
    /\ pc' = "clear"
    /\ UNCHANGED << exitStatus, files, havePBO, images, loadI, pbos, pboIndex,
                    texIDs, texImage, currentIdx, newIdx, drawingTexture,
                    uploadingTexture, frame, maps, copies, boundForDraw,
                    oobRead >>
    /\ UNCHANGED << frameVars, sizeVars, physVars >>

\* (variant: the colour wave only starts with the streaming block)
TimeAfter_FromWarmUp(t, f) == IF f >= WarmUp THEN t + 1 ELSE t

\* line 213: time += 0.016667f, whatever the frame counter f
TimeAfter(t, f) == t + 1

\* lines 213-228: colour wave, drawable size, viewport, glClear
BackgroundClear ==
    /\ pc = "clear"
    /\ timeTicks' = TimeAfter(timeTicks, frame)        \* line 213
    /\ \E sz \in sizes : dw' = sz.w /\ dh' = sz.h      \* line 225
    /\ clearCount' = clearCount + 1                    \* line 228
    /\ boundForDraw' = NoTexture
    /\ pc' = "stream"
    /\ UNCHANGED << sizes, swapCount, physVars >>
    /\ UNCHANGED << exitStatus, files, havePBO, images, loadI, pbos, pboIndex,
                    texIDs, texImage, currentIdx, newIdx, drawingTexture,
                    uploadingTexture, frame, running, maps, copies, oobRead >>

\* (variant: the warm-up test is off by one)
StreamGuard_OffByOne(f, n) == f > WarmUp /\ n # 0

\* (variant: the test for an empty image set is missing)
StreamGuard_NoEmptyTest(f, n) == f >= WarmUp

\* line 230: the block runs from frame 100 on, and only with images
StreamGuard(f, n) == f >= WarmUp /\ n # 0

\* (variant: the ten-frame period of the file header)
scheduleFn_TenFrames(f, n) == ((f - WarmUp) \div 10) % n

\* (variant: the division by the dwell period is missing)
scheduleFn_PerFrame(f, n) == (f - WarmUp) % n

\* line 231: ((frame - 100) / 200) % images.size()
scheduleFn(f, n) == ((f - WarmUp) \div Dwell) % n

\* (variant: upload on every frame of the block)
NeedUpload_Always(new, cur) == TRUE

\* line 232
NeedUpload(new, cur) == new # cur

\* line 257: length of the mapped range
MapLength == texDataSize

\* line 258: number of bytes memcpy reads from img.rgba.data()
CopyBytes(img) == texDataSize

\* line 258 reads past the end of img.rgba when the image is smaller
CopyReadsOutside(img) == CopyBytes(img) > RgbaSize(img)

\* line 263: GL rejects a sub-image that does not fit the 2048 x 2048 texture
\* (GL_INVALID_VALUE) and leaves the texture as it was
TexSubImageOk(img) == img.w <= texW /\ img.h <= texH

\* (variant: the copy goes into the texture that is drawn, as in the
\* commented-out single-texture upload of lines 249-251)
UploadDestination_Display(d, u) == d

\* line 261: the texture bound as destination of the copy, given the display
\* texture d and the upload target u
UploadDestination(d, u) == u

\* (variant: the cursor is never advanced)
NextPbo_Stuck(i) == i

\* lines 266-267
NextPbo(i) == IF i + 1 = numPBOS THEN 0 ELSE i + 1

\* line 231 with images.size() = 0 divides by zero; line 230 keeps the program
\* from getting there.  Where the division does not trap it yields this.
IndexFor(f, n) == IF n = 0 THEN 0 ELSE scheduleFn(f, n)

\* line 233: images[newIdx]; outside the vector there is no image to describe
ImageAt(imgs, idx) ==
    IF idx < Len(imgs) THEN imgs[idx + 1] ELSE [w |-> 0, h |-> 0, src |-> -1]

\* outcomes of lines 254-259: glMapBufferRange may return NULL, which memcpy
\* then writes through; a read past img.rgba may fault or fetch foreign bytes;
\* a division by zero may trap
UploadOutcomes(imgs, img) ==
    {"go_on", "map_null"}
      \cup (IF CopyReadsOutside(img) THEN {"read_fault"} ELSE {})
      \cup (IF Len(imgs) = 0 THEN {"div_trap"} ELSE {})

\* lines 230-273: the streaming controller
StreamingTick ==
    /\ pc = "stream"
    /\ IF ~StreamGuard(frame, nImages)
       THEN /\ pc' = "present"
            /\ UNCHANGED << exitStatus, newIdx, maps, copies, texImage,
                            pboIndex, currentIdx, oobRead >>
       ELSE LET idx == IndexFor(frame, nImages)
                img == ImageAt(images, idx)
            IN  /\ newIdx' = idx
                /\ IF ~NeedUpload(idx, currentIdx)
                   THEN /\ pc' = "draw"
                        /\ UNCHANGED << exitStatus, maps, copies, texImage,
                                        pboIndex, currentIdx, oobRead >>
                   ELSE /\ maps' = Append(maps,
                               [frame |-> frame, pbo |-> pbos[pboIndex + 1],
                                img |-> idx, w |-> img.w, h |-> img.h,
                                length |-> MapLength, bytes |-> CopyBytes(img)])
                        /\ oobRead' = (oobRead \/ CopyReadsOutside(img))
                        /\ \E o \in UploadOutcomes(images, img) :
                             IF o # "go_on"
                             THEN /\ Crash
                                  /\ UNCHANGED << copies, texImage, pboIndex,
                                                  currentIdx >>
                             ELSE /\ copies' = Append(copies,
                                        [frame |-> frame,
                                         pbo |-> pbos[pboIndex + 1],
                                         tex |-> UploadDestination(
                                                   drawingTexture,
                                                   uploadingTexture),
                                         display |-> drawingTexture,
                                         img |-> idx,
                                         ok |-> TexSubImageOk(img)])
                                  /\ texImage' =
                                        IF TexSubImageOk(img)
                                        THEN [texImage EXCEPT
                                                ![UploadDestination(
                                                    drawingTexture,
                                                    uploadingTexture)] = idx]
                                        ELSE texImage
                                  /\ pboIndex' = NextPbo(pboIndex)
                                  /\ currentIdx' = idx          \* line 271
                                  /\ pc' = "draw"
                                  /\ UNCHANGED exitStatus
    /\ UNCHANGED << files, havePBO, images, loadI, pbos, texIDs,
                    drawingTexture, uploadingTexture, frame, running,
                    boundForDraw >>
    /\ UNCHANGED << frameVars, sizeVars, physVars >>

Abs(v) == IF v < 0 THEN -v ELSE v

\* (variant: the test against the low edge is missing)
BounceAxis_NoLowTest(p, v, q, d) ==
    LET p1 == p + v * alwaysDT
        hi == p1 + q >= d * PxScale
    IN  [p |-> IF hi THEN d * PxScale - q ELSE p1,
         v |-> IF hi THEN -Abs(v) ELSE v,
         lo |-> FALSE, hi |-> hi]

\* lines 278-280 (x) and 278, 281-282 (y): one axis of the update, for
\* position p, velocity v, quad extent q and drawable extent d pixels.  The
\* two tests run one after the other, the second on the result of the first.
BounceAxis(p, v, q, d) ==
    LET p1 == p + v * alwaysDT                         \* pos += vel * dt
        lo == p1 <= 0
        p2 == IF lo THEN 0 ELSE p1
        v2 == IF lo THEN Abs(v) ELSE v
        hi == p2 + q >= d * PxScale
    IN  [p |-> IF hi THEN d * PxScale - q ELSE p2,
         v |-> IF hi THEN -Abs(v2) ELSE v2,
         lo |-> lo, hi |-> hi]

\* lines 277-298: physics and quad draw, inside the block of line 230
DrawQuad ==
    /\ pc = "draw"
    /\ LET x == BounceAxis(posX, velX, quadW, dw)
           y == BounceAxis(posY, velY, quadH, dh)
       IN  /\ posX' = x.p /\ velX' = x.v
           /\ posY' = y.p /\ velY' = y.v
           /\ clamped' = [left |-> x.lo, right |-> x.hi,
                          top |-> y.lo, bottom |-> y.hi]
    /\ UNCHANGED << frameVars, sizeVars >>
    /\ boundForDraw' = drawingTexture                  \* line 288
    /\ pc' = "present"
    /\ UNCHANGED << exitStatus, files, havePBO, images, loadI, pbos, pboIndex,
                    texIDs, texImage, currentIdx, newIdx, drawingTexture,
                    uploadingTexture, frame, running, maps, copies, oobRead >>

\* (variant: the loop never tests the flag)
LoopContinues_Always(r) == TRUE

\* line 206: while (running)
LoopContinues(r) == r

\* lines 301-302 and the loop test of line 206; the run is followed while the
\* frame counter is below limit
EndFrameUpTo(limit) ==
    /\ pc = "present"
    /\ frame < limit
    /\ frame' = frame + 1
    /\ pc' = IF LoopContinues(running) THEN "poll" ELSE "teardown"
    /\ UNCHANGED << exitStatus, files, havePBO, images, loadI, pbos, pboIndex,
                    texIDs, texImage, currentIdx, newIdx, drawingTexture,
                    uploadingTexture, running, maps, copies, boundForDraw,
                    oobRead >>
    /\ swapCount' = swapCount + 1                      \* line 301
    /\ UNCHANGED << timeTicks, clearCount, sizeVars, physVars >>

EndFrame == EndFrameUpTo(MaxFrame)

\* lines 305-307
main_exit ==
    /\ pc = "teardown"
    /\ pc' = "exited"
    /\ exitStatus' = 0
    /\ UNCHANGED << files, havePBO, images, loadI, pbos, pboIndex, texIDs,
                    texImage, currentIdx, newIdx, drawingTexture,
                    uploadingTexture, frame, running, maps, copies,
                    boundForDraw, oobRead >>
    /\ UNCHANGED << frameVars, sizeVars, physVars >>

Next ==
    \/ init_sdl
    \/ load_images_to_ram
    \/ main_setup
    \/ main_testMemoryCopy
    \/ PollEvents
    \/ BackgroundClear
    \/ StreamingTick
    \/ DrawQuad
    \/ EndFrame
    \/ main_exit

Spec == Init /\ [][Next]_vars

(***************************************************************************)
(* Vocabulary of the properties                                            *)
(***************************************************************************)
\* the controller tick of the current frame has run to its end
TickDone == pc \in {"draw", "present"}

\* number of frames 0, 1, ... whose controller tick has run to its end
FramesTicked == IF TickDone THEN frame + 1 ELSE frame

\* number of dwell windows that have begun within the first t frames
WindowsStarted(t) ==
    IF t <= WarmUp THEN 0 ELSE ((t - 1 - WarmUp) \div Dwell) + 1

NoFileDecodes == \A i \in DOMAIN files : files[i] = NoFile

\* every image fills the staging buffer exactly and nothing was read outside
\* an object: the run is free of the effects of the fixed-length memcpy
ExactFit == ~oobRead /\ \A k \in DOMAIN images : RgbaSize(images[k]) = texDataSize

(***************************************************************************)
(* C1: with a non-empty image set, in every frame f >= 100 the texture     *)
(* bound for the quad draw of frame f holds image scheduleFn(f): an upload *)
(* of that image was issued into it and no later upload of another image.  *)
(* Stated on the state right after the draw of a frame, for image sets     *)
(* whose images are all 2048 x 2048.                                       *)
(***************************************************************************)
C1_DrawnTextureHoldsScheduled ==
    (ExactFit /\ pc = "present" /\ boundForDraw # NoTexture)
        => texImage[boundForDraw] = scheduleFn(frame, nImages)

(***************************************************************************)
(* C2: every upload flips the ping-pong roles: the texture the copy was    *)
(* issued into becomes the display texture, so two consecutive uploads     *)
(* never have the same destination texture.  Stated for image sets whose   *)
(* images are all 2048 x 2048.                                             *)
(***************************************************************************)
C2_UploadFlipsRoles ==
    ExactFit =>
    /\ (copies # << >> /\ TickDone)
          => /\ drawingTexture = copies[Len(copies)].tex
             /\ uploadingTexture # copies[Len(copies)].tex
    /\ \A k \in 1 .. Len(copies) - 1 : copies[k].tex # copies[k + 1].tex

(***************************************************************************)
(* C3: warm-up.  No staging-buffer map/write and no texture copy is issued *)
(* in a frame below 100, and with at least one image the first upload is   *)
(* issued in frame exactly 100: once the tick of frame 100 has begun an    *)
(* upload, the first map is that of frame 100, and once it has run to its  *)
(* end the first texture copy is that of frame 100.                        *)
(***************************************************************************)
C3_WarmUp ==
    /\ \A k \in DOMAIN maps : maps[k].frame >= WarmUp
    /\ \A k \in DOMAIN copies : copies[k].frame >= WarmUp
    /\ FramesTicked <= WarmUp => (copies = << >> /\ Len(maps) <= 1)
    /\ (nImages >= 1 /\ FramesTicked > WarmUp)
          => /\ maps # << >> /\ maps[1].frame = WarmUp
             /\ copies # << >> /\ copies[1].frame = WarmUp
    /\ (nImages >= 1 /\ pc = "crashed" /\ frame = WarmUp) => maps[1].frame = WarmUp

C3_Witness ==
    /\ nImages >= 1 /\ frame = WarmUp /\ pc = "present"
    /\ Len(maps) = 1 /\ Len(copies) = 1 /\ copies[1].frame = WarmUp

C5_UploadIffIndexChanges ==
    /\ [] /\ (TickDone /\ frame >= WarmUp /\ nImages >= 1)
                => currentIdx = scheduleFn(frame, nImages)
          /\ pc # "crashed"
                => /\ Len(maps) = Len(copies)
                   /\ Len(copies) = IF nImages >= 2
                                    THEN WindowsStarted(FramesTicked)
                                    ELSE IF nImages = 1 /\ FramesTicked > WarmUp
                                         THEN 1 ELSE 0
          /\ \A k \in DOMAIN copies :
                nImages >= 2 => copies[k].frame = WarmUp + Dwell * (k - 1)
    /\ [][ /\ (pc = "stream" /\ frame >= WarmUp /\ nImages >= 1)
                => /\ Len(maps') = Len(maps) + 1
                        <=> scheduleFn(frame, nImages) # currentIdx
                   /\ Len(maps') = Len(maps)
                        <=> scheduleFn(frame, nImages) = currentIdx
           /\ ~(pc = "stream" /\ frame >= WarmUp /\ nImages >= 1)
                => maps' = maps /\ copies' = copies
           /\ (currentIdx' # currentIdx /\ pc # "setup")
                => /\ pc = "stream" /\ frame >= WarmUp /\ nImages >= 1
                   /\ currentIdx' = scheduleFn(frame, nImages) ]_vars

C5_Witness ==
    /\ nImages >= 2 /\ frame = WarmUp + 2 * Dwell /\ pc = "present"
    /\ Len(copies) = 3 /\ currentIdx = scheduleFn(frame, nImages)

(***************************************************************************)
(* C6: staging ring round-robin.  The cursor is always 0 or 1; it is the   *)
(* number of completed uploads modulo 2 (so it advances by one on every    *)
(* upload and on nothing else); the k-th upload (k = 0, 1, ...) uses slot  *)
(* k mod 2; two consecutive uploads never use the same slot.               *)
(***************************************************************************)
C6_RingRoundRobin ==
    /\ pboIndex \in 0 .. numPBOS - 1
    /\ pboIndex = Len(copies) % numPBOS
    /\ \A k \in DOMAIN maps : maps[k].pbo = pbos[((k - 1) % numPBOS) + 1]
    /\ \A k \in DOMAIN copies : copies[k].pbo = pbos[((k - 1) % numPBOS) + 1]
    /\ \A k \in 1 .. Len(maps) - 1 : maps[k].pbo # maps[k + 1].pbo

C6_Witness ==
    /\ Len(copies) = 3 /\ pboIndex = 1
    /\ copies[1].pbo = copies[3].pbo /\ copies[1].pbo # copies[2].pbo

(***************************************************************************)
(* C7: idle degradation.  With an empty image set no frame acquires a      *)
(* staging slot, writes into one or issues a texture copy, whatever the    *)
(* frame counter; the controller never selects an image and the block of   *)
(* line 230 is never entered.                                              *)
(***************************************************************************)
C7_IdleWhenEmpty ==
    nImages = 0
       => /\ maps = << >> /\ copies = << >>
          /\ pboIndex = 0
          /\ pc # "draw"
          /\ pc \in {"poll", "clear", "stream", "present"}
                => /\ currentIdx = SIZE_MAX
                   /\ \A t \in DOMAIN texImage : texImage[t] = NoImage

C7_Witness ==
    /\ nImages = 0 /\ pc = "present" /\ frame = WarmUp + Dwell
    /\ maps = << >> /\ copies = << >>

(***************************************************************************)
(* C8: an empty image set is non-fatal: when no image file decodes,        *)
(* startup completes without reading any element of the image set.         *)
(***************************************************************************)
C8_EmptySetStartsCleanly ==
    NoFileDecodes => ~oobRead

(***************************************************************************)
(* C9: every upload of an image of size w x h reads exactly w*h*4 bytes    *)
(* from the image's buffer and writes them into the staging slot, never    *)
(* more than the slot's 2048*2048*4 bytes.                                 *)
(***************************************************************************)
C9_CopyLengthIsImageSize ==
    \A k \in DOMAIN maps :
        /\ maps[k].bytes = maps[k].w * maps[k].h * 4
        /\ maps[k].bytes <= maps[k].length

(***************************************************************************)
(* C10: capability shortfall.  When pixel buffer objects were detected as  *)
(* unavailable at initialization, no staging buffer is created, mapped or  *)
(* used as a copy source.                                                  *)
(***************************************************************************)
C10_NoStagingWithoutPBO ==
    (pc \notin {"init_sdl", "crashed"} /\ exitStatus # 1 /\ ~havePBO)
        => (pbos = << >> /\ maps = << >> /\ copies = << >>)

(***************************************************************************)
(* C11: from loop entry on the two texture objects hold distinct roles     *)
(* (one is the display texture, the other the upload target, and they are  *)
(* the two textures that were created), and every upload copy was issued   *)
(* into the texture that was the upload target at that moment, never into  *)
(* the one that was the display texture.                                   *)
(***************************************************************************)
InLoop == pc \in {"poll", "clear", "stream", "draw", "present"}

C12_QuadDrawnEveryFrame ==
    (pc = "present" /\ nImages >= 1 /\ ExactFit)
        => boundForDraw = drawingTexture

(***************************************************************************)
(* Specification of start-up alone, for the image cache: any of the ten    *)
(* candidate files may exist; the run is followed to the end of            *)
(* load_images_to_ram.                                                     *)
(***************************************************************************)
InitLoad ==
    /\ pc = "init_sdl"
    /\ exitStatus = -1
    /\ \E present \in SUBSET (0 .. NumCandidates - 1), d \in Dims :
         files = [i \in 0 .. NumCandidates - 1 |->
                     IF i \in present THEN d ELSE NoFile]
    /\ havePBO = FALSE
    /\ images = << >>
    /\ loadI = 0
    /\ pbos = << >>
    /\ pboIndex = 0
    /\ texIDs = << >>
    /\ texImage = << >>
    /\ currentIdx = 0
    /\ newIdx = 0
    /\ drawingTexture = NoTexture
    /\ uploadingTexture = NoTexture
    /\ frame = 0
    /\ running = FALSE
    /\ maps = << >>
    /\ copies = << >>
    /\ boundForDraw = NoTexture
    /\ oobRead = FALSE
    /\ sizes = FixedSize
    /\ NotYetRendering

NextLoad ==
    \/ init_sdl
    \/ load_images_to_ram

SpecLoad == InitLoad /\ [][NextLoad]_vars

(***************************************************************************)
(* C13: image cache load.  Candidates 0..9 are tried in increasing order;  *)
(* a failed decode is skipped and does not stop the enumeration; the set   *)
(* holds exactly the decoded images among the candidates tried so far, at  *)
(* most 10, each with its decoded dimensions, ordered by increasing        *)
(* candidate index.                                                        *)
(***************************************************************************)
C13_LoadOrder ==
    /\ loadI \in 0 .. NumCandidates
    /\ pc = "setup" => loadI = NumCandidates
    /\ Len(images) <= NumCandidates
    /\ {images[k].src : k \in DOMAIN images}
          = {i \in 0 .. loadI - 1 : files[i] # NoFile}
    /\ \A k \in DOMAIN images :
          /\ images[k].w = files[images[k].src].w
          /\ images[k].h = files[images[k].src].h
    /\ \A k \in 1 .. Len(images) - 1 : images[k].src < images[k + 1].src

\* files 0 and 3 are missing, the other eight are loaded in order
C13_Witness ==
    /\ pc = "setup"
    /\ files[0] = NoFile /\ files[3] = NoFile
    /\ Len(images) = 8
    /\ images[1].src = 1 /\ images[3].src = 4 /\ images[8].src = 9

HeaderPeriod == 10

C15_OneTextureEveryTenFrames ==
    (ExactFit /\ nImages >= 2 /\ pc # "crashed")
       => /\ \A k \in DOMAIN copies :
                /\ copies[k].frame = WarmUp + HeaderPeriod * (k - 1)
                /\ copies[k].tex = copies[1].tex
          /\ (TickDone /\ frame >= WarmUp + HeaderPeriod) => Len(copies) >= 2
          /\ (pc = "present" /\ boundForDraw # NoTexture /\ copies # << >>)
                => boundForDraw = copies[1].tex

ClearedThisIteration == pc \in {"stream", "draw", "present"}

C17_ClearAndPresentOncePerFrame ==
    /\ [] /\ swapCount = frame
          /\ clearCount = timeTicks
          /\ InLoop => clearCount = frame + (IF ClearedThisIteration THEN 1 ELSE 0)
          /\ pc \in {"teardown", "exited"} => clearCount = frame
          /\ pc = "crashed" => clearCount \in {frame, frame + 1}
    /\ [][ /\ frame' # frame
              => (frame' = frame + 1 /\ pc = "present" /\ pc' # "present")
           /\ (pc = "present" /\ pc' # pc) => frame' = frame + 1
           /\ (pc = "clear" /\ pc' # pc)
              => (clearCount' = clearCount + 1 /\ timeTicks' = timeTicks + 1)
         ]_vars

\* an iteration with an upload, one without, during warm-up and after
C17_Witness ==
    /\ pc = "present" /\ frame = WarmUp + Dwell /\ Len(copies) = 2
    /\ clearCount = frame + 1 /\ timeTicks = frame + 1 /\ swapCount = frame

(***************************************************************************)
(* Specification of the bounce physics under a drawable whose size changes *)
(* from frame to frame.  It starts where a run with the one image          *)
(* tex0.png (2048 x 2048) stands when warm-up ends: loop top, frame 100,   *)
(* no upload issued yet, the quad still at its start position because the  *)
(* update of lines 277-282 has not run.                                    *)
(***************************************************************************)
\* physics updates followed after warm-up
MaxPhysSteps == 6

\* drawable sizes the window may report: smaller than the quad, exactly the
\* quad (480 x 270), and two larger ones
DrawableSizes ==
    { [w |-> 320, h |-> 240], [w |-> START_W \div 4, h |-> START_H \div 4],
      [w |-> START_W \div 2, h |-> START_H \div 2],
      [w |-> START_W, h |-> START_H] }

InitPhys ==
    /\ pc = "poll"
    /\ exitStatus = -1
    /\ files = [i \in 0 .. NumCandidates - 1 |->
                   IF i = 0 THEN [w |-> texW, h |-> texH] ELSE NoFile]
    /\ havePBO = TRUE
    /\ images = << [w |-> texW, h |-> texH, src |-> 0] >>
    /\ loadI = NumCandidates
    /\ pbos = GenNames(numPBOS)
    /\ pboIndex = 0
    /\ texIDs = GenNames(2)
    /\ texImage = [t \in {1, 2} |-> NoImage]
    /\ currentIdx = SIZE_MAX
    /\ newIdx = 0
    /\ drawingTexture = texIDs[1]
    /\ uploadingTexture = texIDs[2]
    /\ frame = WarmUp
    /\ running = TRUE
    /\ maps = << >>
    /\ copies = << >>
    /\ boundForDraw = NoTexture
    /\ oobRead = FALSE
    /\ timeTicks = WarmUp /\ clearCount = WarmUp /\ swapCount = WarmUp
    /\ sizes = DrawableSizes
    /\ dw = START_W /\ dh = START_H
    /\ posX = ((START_W * PxScale - quadW) \div 2)
    /\ posY = ((START_H * PxScale - quadH) \div 2)
    /\ velX = velX0 /\ velY = velY0
    /\ clamped = NoClamp

EndFramePhys == EndFrameUpTo(WarmUp + MaxPhysSteps)

NextPhys ==
    \/ PollEvents
    \/ BackgroundClear
    \/ StreamingTick
    \/ DrawQuad
    \/ EndFramePhys
    \/ main_exit

SpecPhys == InitPhys /\ [][NextPhys]_vars

\* the physics update of the current iteration has run
PhysicsUpdated == pc = "present" /\ boundForDraw # NoTexture

\* the drawable of this frame is at least as wide (high) as the quad
FitsX == dw * PxScale >= quadW
FitsY == dh * PxScale >= quadH
\* ... and strictly wider (higher)
RoomX == dw * PxScale > quadW
RoomY == dh * PxScale > quadH

InsideX == 0 <= posX /\ posX <= dw * PxScale - quadW
InsideY == 0 <= posY /\ posY <= dh * PxScale - quadH

(***************************************************************************)
(* C18 as stated: after every physics update with dw >= quadW and          *)
(* dh >= quadH the quad lies inside the drawable, and a coordinate clamped *)
(* at an edge has its velocity pointing back in (positive at the left and  *)
(* top edge, negative at the right and bottom edge) with the magnitude it  *)
(* had.  Fails when dw = quadW: both tests of line 279-280 fire, and the   *)
(* coordinate clamped at the left edge keeps a negative velocity.          *)
(***************************************************************************)
C18_AsStated ==
    (PhysicsUpdated /\ FitsX /\ FitsY)
       => /\ InsideX /\ InsideY
          /\ clamped.left => velX = velX0
          /\ clamped.right => velX = -velX0
          /\ clamped.top => velY = velY0
          /\ clamped.bottom => velY = -velY0

(***************************************************************************)
(* C18, amended: after every physics update, on each axis on which the     *)
(* drawable is at least as large as the quad the quad lies inside the      *)
(* drawable; the velocity always keeps its magnitude; a coordinate clamped *)
(* at the right or bottom edge has a negative velocity, and one clamped at *)
(* the left or top edge has a positive velocity provided the drawable is   *)
(* strictly larger than the quad on that axis.                             *)
(***************************************************************************)
C18_BoundedBounce ==
    /\ Abs(velX) \in {0, velX0} /\ Abs(velY) \in {0, velY0}
    /\ PhysicsUpdated
       => /\ Abs(velX) = velX0 /\ Abs(velY) = velY0
          /\ FitsX => InsideX
          /\ FitsY => InsideY
          /\ (clamped.left /\ RoomX) => (velX = velX0 /\ posX = 0)
          /\ (clamped.top /\ RoomY) => (velY = velY0 /\ posY = 0)
          /\ (clamped.right /\ FitsX)
                => (velX = -velX0 /\ posX = dw * PxScale - quadW)
          /\ (clamped.bottom /\ FitsY)
                => (velY = -velY0 /\ posY = dh * PxScale - quadH)

\* the quad has been clamped at the left edge of a drawable wider than itself
\* and now moves right
C18_Witness ==
    /\ PhysicsUpdated /\ RoomX /\ FitsY
    /\ clamped.left /\ ~clamped.right
    /\ posX = 0 /\ velX = velX0

====
